---- MODULE Spec2Model ----
(***************************************************************************)
(* Model of the NESDIS gridded-product adapters of monetio.sat:            *)
(*   nesdis_eps_viirs_aod_nrt        (HTTP file server, "NRT")             *)
(*   nesdis_viirs_aod_aws_gridded    (S3, daily / weekly / monthly AOD)    *)
(*   nesdis_avhrr_aot_aws_gridded    (S3, AVHRR AOT)                       *)
(*   nesdis_viirs_ndvi_aws_gridded   (S3, NDVI / VHI and friends)          *)
(*                                                                         *)
(* A call of a public function is one action: it reads the remote store,   *)
(* and leaves behind what the caller can observe: the value returned or    *)
(* the exception raised, the warnings emitted and the remote requests      *)
(* issued, in order.  The remote stores are the environment: files appear  *)
(* on them between calls.                                                  *)
(***************************************************************************)
EXTENDS Integers, Sequences, FiniteSets, TLC

VARIABLES
    nesdis,     \* NRT: URLs the NESDIS file server answers with status 200
    jpss,       \* VIIRS AOD: objects of the noaa-jpss bucket
    aot,        \* AVHRR: objects of the noaa-cdr-aerosol-optical-thickness-pds bucket
    cdr,        \* NDVI: objects of the noaa-cdr-* buckets of DATA_CONFIGS
    glob_cache, \* NDVI: contents of the lru_cache of _get_cached_file_list
    pc,         \* "idle": no call in progress; "done": a call has finished
    call,       \* the function called and its arguments
    result,     \* what the call returned or raised
    warns,      \* warnings emitted during the call, in order
    reqs        \* remote requests issued during the call, in order

vars == <<nesdis, jpss, aot, cdr, glob_cache, pc, call, result, warns, reqs>>

----------------------------------------------------------------------------
(* Bounds *)

MaxDates == 2       \* longest list of dates passed to a call
MaxFiles == 2       \* most objects a remote store holds
MaxSlices == 3      \* longest list of dates of a call that leaves satellite at its default

----------------------------------------------------------------------------
(* Timestamps (pd.Timestamp): year, month, day, hour *)

TS(y, m, d, h) == [y |-> y, m |-> m, d |-> d, h |-> h]

\* The dates calls are made with: two times of one day, a second day of the
\* same month (and week), and a day of another month (and week).
DateUniverse ==
    { TS(2023, 1, 1, 0), TS(2023, 1, 1, 12), TS(2023, 1, 2, 0),
      TS(2023, 2, 1, 0) }

\* Lists of at most n dates
DateLists(n) == UNION { [1..k -> DateUniverse] : k \in 0..n }

floor_D(t) == [t EXCEPT !.h = 0]
to_period_M_to_timestamp(t) == [t EXCEPT !.d = 1, !.h = 0]
strftime_Y(t) == t.y
strftime_Ym(t) == t.y * 100 + t.m
strftime_Ymd(t) == t.y * 10000 + t.m * 100 + t.d

\* Index.unique(): the distinct elements, in order of first occurrence
RECURSIVE unique(_)
unique(s) ==
    IF s = <<>> THEN <<>>
    ELSE LET n == Len(s)
             init == unique(SubSeq(s, 1, n - 1))
         IN IF \E i \in 1..(n - 1) : s[i] = s[n] THEN init ELSE Append(init, s[n])

Map(F(_), s) == [i \in 1..Len(s) |-> F(s[i])]

\* The argument `dates` / `date`: one value (a str or a datetime) or an
\* iterable of them.
Scalar(d) == [iterable |-> FALSE, v |-> <<d>>]
Iterable(s) == [iterable |-> TRUE, v |-> s]

----------------------------------------------------------------------------
(* Strings whose characters matter: sequences of characters *)

\* str(x) of the data_resolution values
Float(s) == [type |-> "float", repr |-> s]
Str(s) == [type |-> "str", repr |-> s]
str(x) == x.repr

f0_05 == Float(<<"0", ".", "0", "5">>)
f0_1 == Float(<<"0", ".", "1">>)
f0_25 == Float(<<"0", ".", "2", "5">>)

RECURSIVE ljust(_, _, _)
ljust(s, width, fill) ==
    IF Len(s) >= width THEN s ELSE ljust(Append(s, fill), width, fill)

----------------------------------------------------------------------------
(* Messages: the words and punctuation marks of the text, and the object   *)
(* the text ends with                                                      *)

Message(words, arg) == [words |-> words, arg |-> arg]

\* re.search(pattern, text) for a pattern of plain words: the pattern occurs
\* in the text
Matches(pattern, msg) ==
    \E i \in 0..(Len(msg.words) - Len(pattern)) :
        \A j \in 1..Len(pattern) : msg.words[i + j] = pattern[j]

----------------------------------------------------------------------------
(* Datasets (xr.Dataset): the sources read, the time coordinate the adapter *)
(* attached (expand_dims(time=...) or dset["time"] = ...), if any.          *)

Dataset(files, time, attached) == [files |-> files, time |-> time, attached |-> attached]
NoDataset == Dataset(<<>>, <<>>, FALSE)

expand_dims_time(ds, time) == [ds EXCEPT !.time = time, !.attached = TRUE]

\* xr.concat(dsets, dim="time") and xr.open_mfdataset(..., concat_dim="time").
\* (The library raises for an empty list; no caller passes one.)
RECURSIVE concat_time(_)
concat_time(dsets) ==
    IF dsets = <<>> THEN Dataset(<<>>, <<>>, FALSE)
    ELSE IF Len(dsets) = 1 THEN dsets[1]
    ELSE LET init == concat_time(SubSeq(dsets, 1, Len(dsets) - 1))
             last == dsets[Len(dsets)]
         IN Dataset(init.files \o last.files, init.time \o last.time, init.attached)

----------------------------------------------------------------------------
(* What a call leaves behind *)

\* A result: a dataset (the open_* functions) or a file list and its total
\* size (the file-list builders), or an exception
Returned(ds) ==
    [kind |-> "return", exc |-> "", msg |-> Message(<<>>, <<>>), dset |-> ds,
     file_list |-> <<>>, total_size |-> 0]
ReturnedList(file_list, total_size) ==
    [kind |-> "return", exc |-> "", msg |-> Message(<<>>, <<>>), dset |-> NoDataset,
     file_list |-> file_list, total_size |-> total_size]
Raised(exc, msg) ==
    [kind |-> "raise", exc |-> exc, msg |-> msg, dset |-> NoDataset,
     file_list |-> <<>>, total_size |-> 0]
NoResult ==
    [kind |-> "none", exc |-> "", msg |-> Message(<<>>, <<>>), dset |-> NoDataset,
     file_list |-> <<>>, total_size |-> 0]
NoCall == [module |-> "", fn |-> ""]

Outcome(res, w, r) == [result |-> res, warns |-> w, reqs |-> r]

----------------------------------------------------------------------------
(* nesdis_eps_viirs_aod_nrt *)

NrtSatellites == {"NOAA20", "SNPP", "snpp", "GOES"}
NrtResolutions == {f0_1, f0_25, f0_05}

lower(s) ==
    CASE s = "NOAA20" -> "noaa20"
      [] s = "SNPP" -> "snpp"
      [] OTHER -> IF s = "GOES" THEN "goes" ELSE s
upper(s) ==
    CASE s = "noaa20" -> "NOAA20"
      [] s = "snpp" -> "SNPP"
      [] OTHER -> IF s = "goes" THEN "GOES" ELSE s

Url(sat_dirname, aod_dirname, year, sat, res, stamp) ==
    [sat_dirname |-> sat_dirname, aod_dirname |-> aod_dirname, year |-> year,
     sat |-> sat, res |-> res, stamp |-> stamp]

\* isinstance(dates, Iterable) and not isinstance(dates, str): the index of
\* the dates, or of the one date
nrt_DatetimeIndex(dates) == dates.v

nrt_bucket_dates(dates, daily) ==
    IF daily THEN unique(Map(floor_D, dates))
    ELSE unique(Map(to_period_M_to_timestamp, dates))

nrt_resolution_warning(daily, data_resolution) ==
    IF data_resolution # f0_25 /\ ~daily
    THEN << Message(<<"Monthly", "data", "is", "only", "available", "at",
                      "0.25", "deg", "resolution", ",", "got", "'data_resolution'">>,
                    data_resolution) >>
    ELSE <<>>

nrt_sat(satellite, daily) ==
    IF upper(satellite) = "SNPP" THEN (IF daily THEN "npp" ELSE "snpp")
    ELSE "noaa20"   \* reached with NOAA20 only: the callers validate first

nrt_url(date, daily, data_resolution, satellite) ==
    LET res == ljust(str(data_resolution), 5, "0")
    IN IF daily
       THEN Url(lower(satellite), "aod/eps", strftime_Y(date),
                nrt_sat(satellite, daily), res, strftime_Ymd(date))
       ELSE Url(lower(satellite), "aod_monthly", 0,
                nrt_sat(satellite, daily), res, strftime_Ym(date))

\* build_urls: the URLs, and the warnings it emits
build_urls(dates, daily, data_resolution, satellite) ==
    [urls |-> Map(LAMBDA d : nrt_url(d, daily, data_resolution, satellite),
                  nrt_bucket_dates(nrt_DatetimeIndex(dates), daily)),
     warns |-> nrt_resolution_warning(daily, data_resolution)]

\* A call of build_urls: the URLs it returns (the file names are their last
\* parts).  For a satellite that is neither SNPP nor NOAA20 `sat` is never
\* bound, and the first pass of the loop raises UnboundLocalError.
nrt_build_urls(dates, daily, data_resolution, satellite) ==
    LET built == build_urls(dates, daily, data_resolution, satellite)
    IN IF upper(satellite) \notin {"SNPP", "NOAA20"} /\ built.urls # <<>>
       THEN Outcome(Raised("UnboundLocalError", Message(<<>>, <<>>)), built.warns, <<>>)
       ELSE Outcome(ReturnedList(built.urls, 0), built.warns, <<>>)

\* The server's answer to GET url
requests_get(server, url) == IF url \in server THEN 200 ELSE 404

\* Variant: only server errors raise
raises_for_status_5xx(status) == status >= 500 /\ status < 600

\* Response.raise_for_status(): HTTPError for 4xx and 5xx
raises_for_status(status) == status >= 400 /\ status < 600

GET(url) == [op |-> "GET", url |-> url]

nrt_invalid_satellite(satellite) == lower(satellite) \notin {"noaa20", "snpp"}
\* Variant: every data_resolution passes
nrt_any_resolution(data_resolution) == FALSE

nrt_invalid_resolution(data_resolution) == data_resolution \notin {f0_1, f0_25}

nrt_satellite_error ==
    Raised("ValueError", Message(<<"Invalid", "input", "for", "'satellite'">>, <<>>))
nrt_resolution_error ==
    Raised("ValueError", Message(<<"Invalid", "input", "for", "'data_resolution'">>, <<>>))

nrt_failed_msg(url) ==
    Message(<<"Failed", "to", "access", "file", "on", "NESDIS", "FTP", "server", ":">>, url)
nrt_not_available_msg(dates) ==
    Message(<<"Files", "not", "available", "for", "product", "and", "dates", ":">>, dates)

nrt_open_dataset(server, date, satellite, data_resolution, daily) ==
    IF nrt_invalid_satellite(satellite) THEN Outcome(nrt_satellite_error, <<>>, <<>>)
    ELSE IF nrt_invalid_resolution(data_resolution)
    THEN Outcome(nrt_resolution_error, <<>>, <<>>)
    ELSE LET built == build_urls(Scalar(date), daily, data_resolution, satellite)
             url == built.urls[1]
             status == requests_get(server, url)
         IN IF raises_for_status(status)
            THEN Outcome(Raised("HTTPError", Message(<<>>, <<>>)), built.warns, <<GET(url)>>)
            ELSE Outcome(Returned(expand_dims_time(Dataset(<<url>>, <<>>, FALSE), <<date>>)),
                         built.warns, <<GET(url)>>)

\* Variant: one pair per element of b, the last element of a repeated
zip_longest_b(a, b) ==
    [i \in 1..Len(b) |-> <<a[IF i <= Len(a) THEN i ELSE Len(a)], b[i]>>]

\* zip(urls, dates): pairs, as many as the shorter of the two
zip(a, b) ==
    [i \in 1..(IF Len(a) <= Len(b) THEN Len(a) ELSE Len(b)) |-> <<a[i], b[i]>>]

\* Variant: error_missing ignored, a failed request only warns
nrt_warn_on_missing(error_missing) == FALSE

\* The branch taken for a response whose status is not 200
nrt_raise_on_missing(error_missing) == error_missing

\* The loop over zip(urls, dates), from pair i on; st is what the loop has
\* built so far.  A raise ends the loop.
RECURSIVE nrt_fetch(_, _, _, _, _)
nrt_fetch(server, pairs, i, error_missing, st) ==
    IF i > Len(pairs) THEN st
    ELSE LET url == pairs[i][1]
             date == pairs[i][2]
             status == requests_get(server, url)
             sent == [st EXCEPT !.reqs = Append(@, GET(url))]
         IN IF status # 200
            THEN IF nrt_raise_on_missing(error_missing)
                 THEN [sent EXCEPT !.raised = TRUE, !.msg = nrt_failed_msg(url)]
                 ELSE nrt_fetch(server, pairs, i + 1, error_missing,
                                [sent EXCEPT !.warns = Append(@, nrt_failed_msg(url))])
            ELSE nrt_fetch(server, pairs, i + 1, error_missing,
                           [sent EXCEPT !.dsets =
                               Append(@, expand_dims_time(Dataset(<<url>>, <<>>, FALSE),
                                                          <<date>>))])

\* Variant: the collected datasets are concatenated unchecked
nrt_unchecked(dsets) == FALSE

\* The check made of the collected datasets before they are concatenated
nrt_none_collected(dsets) == Len(dsets) = 0

nrt_open_mfdataset(server, dates, satellite, data_resolution, daily, error_missing) ==
    IF nrt_invalid_satellite(satellite) THEN Outcome(nrt_satellite_error, <<>>, <<>>)
    ELSE IF nrt_invalid_resolution(data_resolution)
    THEN Outcome(nrt_resolution_error, <<>>, <<>>)
    ELSE LET index == nrt_DatetimeIndex(dates)
             built == build_urls(dates, daily, data_resolution, satellite)
             st == nrt_fetch(server, zip(built.urls, index), 1, error_missing,
                             [dsets |-> <<>>, warns |-> built.warns, reqs |-> <<>>,
                              raised |-> FALSE, msg |-> Message(<<>>, <<>>)])
         IN IF st.raised THEN Outcome(Raised("RuntimeError", st.msg), st.warns, st.reqs)
            ELSE IF nrt_none_collected(st.dsets)
            THEN Outcome(Raised("ValueError", nrt_not_available_msg(index)),
                         st.warns, st.reqs)
            ELSE Outcome(Returned(concat_time(st.dsets)), st.warns, st.reqs)

\* The files the server can hold: for NOAA20 the daily and the monthly files
\* of the dates of DateUniverse at both resolutions; for SNPP the daily file
\* of the first day and the monthly file of its month.
NesdisUniverse ==
    { nrt_url(d, daily, r, "NOAA20") :
        d \in DateUniverse, daily \in BOOLEAN, r \in {f0_1, f0_25} }
    \cup { nrt_url(TS(2023, 1, 1, 0), TRUE, f0_1, "SNPP"),
           nrt_url(TS(2023, 1, 1, 0), FALSE, f0_25, "SNPP") }

----------------------------------------------------------------------------
(* S3 (s3fs.S3FileSystem), as the three AWS modules use it *)

\* The entry a file-list builder appends for a date without a file
None == [none |-> TRUE]

S3(op, path) == [op |-> op, url |-> path]

fs_exists(bucket, path) == path \in bucket

\* fs.size(path): the size of the object.  Sizes are a fixed property of the
\* objects the model knows.
fs_size(path) ==
    (path.start % 10) + (IF path.satellite = "SNPP" THEN 1 ELSE 11) + 20 * path.version

\* The sequence of the elements of a set of object keys, in the order of a
\* bucket listing (by name: start, then end, then version)
KeyBefore(a, b) ==
    \/ a.start < b.start
    \/ a.start = b.start /\ a.end < b.end
    \/ a.start = b.start /\ a.end = b.end /\ a.version < b.version

RECURSIVE Listing(_)
Listing(S) ==
    IF S = {} THEN <<>>
    ELSE LET first == CHOOSE k \in S : \A o \in S \ {k} : KeyBefore(k, o)
         IN <<first>> \o Listing(S \ {first})

\* all(f is None for f in file_list)
all_None(file_list) == \A i \in 1..Len(file_list) : file_list[i] = None

\* What a builder has built so far: the list, the size, the warnings and
\* requests, and whether it has raised
Building == [file_list |-> <<>>, total_size |-> 0, warns |-> <<>>, reqs |-> <<>>,
             raised |-> FALSE, msg |-> Message(<<>>, <<>>)]

\* What a call of a builder leaves behind
Built(st) ==
    IF st.raised THEN Outcome(Raised("ValueError", st.msg), st.warns, st.reqs)
    ELSE Outcome(ReturnedList(st.file_list, st.total_size), st.warns, st.reqs)

----------------------------------------------------------------------------
(* nesdis_viirs_aod_aws_gridded *)

AodSatellites == {"SNPP", "NOAA20", "GOES"}
AodAveragingTimes == {"daily", "weekly", "monthly", "hourly"}
AodResolutions ==
    {f0_05, f0_1, f0_25, Str(<<"0", ".", "2", "5", "0">>), Float(<<"0", ".", "5">>)}

\* The forms a data_resolution is given in: floats, strings padded or not, a
\* string longer than the padded form
AodResolutionForms ==
    AodResolutions
    \cup {Str(<<"0", ".", "0", "5">>), Str(<<"0", ".", "1">>), Str(<<"0", ".", "1", "0">>),
          Str(<<"0", ".", "1", "0", "0">>), Str(<<"0", ".", "2", "5", "0", "0">>)}

s0_050 == <<"0", ".", "0", "5", "0">>
s0_100 == <<"0", ".", "1", "0", "0">>
s0_250 == <<"0", ".", "2", "5", "0">>

\* PRODUCT_CONFIG[averaging_time]["resolutions"]
PRODUCT_CONFIG_resolutions(averaging_time) ==
    IF averaging_time = "daily" THEN {s0_050, s0_100, s0_250} ELSE {s0_250}

_get_satellite_name(satellite) == IF satellite = "SNPP" THEN "npp" ELSE "noaa20"

\* An object of the bucket: path_template and file_template filled in.
\* Weekly files carry the range of their week in their name.
JpssKey(satellite, product, resdir, year, sat_name, res, start, end) ==
    [satellite |-> satellite, product |-> product, resdir |-> resdir, year |-> year,
     sat_name |-> sat_name, res |-> res, start |-> start, end |-> end, version |-> 0]

\* Variant: the directory is named with all of data_resolution
aod_daily_path_untruncated(data_resolution, satellite, date) ==
    JpssKey(satellite, "Daily", data_resolution, strftime_Y(date),
            _get_satellite_name(satellite), data_resolution, strftime_Ymd(date), 0)

aod_daily_path(data_resolution, satellite, date) ==
    JpssKey(satellite, "Daily", SubSeq(data_resolution, 1, 4), strftime_Y(date),
            _get_satellite_name(satellite), data_resolution, strftime_Ymd(date), 0)

aod_monthly_path(satellite, date) ==
    JpssKey(satellite, "Monthly", <<"0", ".", "2", "5">>, 0,
            _get_satellite_name(satellite), s0_250, strftime_Ym(date), 0)

aod_weekly_file(satellite, year, start, end) ==
    JpssKey(satellite, "Weekly", <<"0", ".", "2", "5">>, year,
            _get_satellite_name(satellite), s0_250, start, end)

\* The directory of the weekly files of a year
aod_weekly_dir(satellite, date) ==
    [satellite |-> satellite, product |-> "Weekly", year |-> strftime_Y(date)]

\* validate_inputs: the error it raises, or NoResult
aod_validate_inputs(satellite, data_resolution, averaging_time) ==
    IF satellite \notin {"SNPP", "NOAA20"}
    THEN Raised("ValueError", Message(<<"Invalid", "satellite", ":">>, satellite))
    ELSE IF averaging_time \notin {"daily", "weekly", "monthly"}
    THEN Raised("ValueError", Message(<<"Invalid", "averaging_time", ":">>, averaging_time))
    ELSE IF data_resolution \notin PRODUCT_CONFIG_resolutions(averaging_time)
    THEN Raised("ValueError",
                Message(<<"Invalid", "resolution", "for", averaging_time, "data", ".">>,
                        data_resolution))
    ELSE NoResult

aod_missing_msg(full_path) == Message(<<"File", "does", "not", "exist", ":">>, full_path)

\* Variant: the size of a file found is not added to total_size
aod_lookup_unsized(bucket, full_path, warning, st) ==
    LET asked == [st EXCEPT !.reqs = Append(@, S3("exists", full_path))]
    IN IF fs_exists(bucket, full_path)
       THEN [asked EXCEPT !.file_list = @ \o <<full_path>>,
                          !.reqs = @ \o <<S3("ls", full_path), S3("size", full_path)>>]
       ELSE IF warning
       THEN [asked EXCEPT !.warns = Append(@, aod_missing_msg(full_path)),
                          !.file_list = Append(@, None)]
       ELSE [asked EXCEPT !.raised = TRUE, !.msg = aod_missing_msg(full_path)]

\* The if / else on fs.exists(full_path) of the daily and the monthly builder
aod_lookup(bucket, full_path, warning, st) ==
    LET asked == [st EXCEPT !.reqs = Append(@, S3("exists", full_path))]
    IN IF fs_exists(bucket, full_path)
       THEN [asked EXCEPT !.file_list = @ \o <<full_path>>,
                          !.total_size = @ + fs_size(full_path),
                          !.reqs = @ \o <<S3("ls", full_path), S3("size", full_path)>>]
       ELSE IF warning
       THEN [asked EXCEPT !.warns = Append(@, aod_missing_msg(full_path)),
                          !.file_list = Append(@, None)]
       ELSE [asked EXCEPT !.raised = TRUE, !.msg = aod_missing_msg(full_path)]

RECURSIVE aod_daily_loop(_, _, _, _, _, _, _)
aod_daily_loop(bucket, data_resolution, satellite, dates, i, warning, st) ==
    IF i > Len(dates) \/ st.raised THEN st
    ELSE aod_daily_loop(bucket, data_resolution, satellite, dates, i + 1, warning,
             aod_lookup(bucket, aod_daily_path(data_resolution, satellite, dates[i]),
                        warning, st))

aod_create_daily_aod_list(bucket, data_resolution, satellite, date_generated, warning) ==
    LET invalid == aod_validate_inputs(satellite, data_resolution, "daily")
    IN IF invalid # NoResult
       THEN [Building EXCEPT !.raised = TRUE, !.msg = invalid.msg]
       ELSE aod_daily_loop(bucket, data_resolution, satellite, date_generated, 1,
                           warning, Building)

\* Variant: no month is ever added to processed_months
aod_no_processed_months(dates, i) == {}

\* The months of the dates before the i-th: processed_months when the loop
\* reaches date i
aod_processed_months(dates, i) == { strftime_Ym(dates[j]) : j \in 1..(i - 1) }

RECURSIVE aod_monthly_loop(_, _, _, _, _, _)
aod_monthly_loop(bucket, satellite, dates, i, warning, st) ==
    IF i > Len(dates) \/ st.raised THEN st
    ELSE IF strftime_Ym(dates[i]) \in aod_processed_months(dates, i)
    THEN aod_monthly_loop(bucket, satellite, dates, i + 1, warning, st)
    ELSE aod_monthly_loop(bucket, satellite, dates, i + 1, warning,
             aod_lookup(bucket, aod_monthly_path(satellite, dates[i]), warning, st))

aod_create_monthly_aod_list(bucket, satellite, date_generated, warning) ==
    LET invalid == aod_validate_inputs(satellite, s0_250, "monthly")
    IN IF invalid # NoResult
       THEN [Building EXCEPT !.raised = TRUE, !.msg = invalid.msg]
       ELSE aod_monthly_loop(bucket, satellite, date_generated, 1, warning, Building)

\* fs.ls(prod_path): the files of the directory, in listing order; none when
\* the directory does not exist, for which fs.ls raises FileNotFoundError
aod_ls_weekly(bucket, dir) ==
    Listing({ k \in bucket : /\ k.product = dir.product
                             /\ k.satellite = dir.satellite
                             /\ k.year = dir.year })

\* Variant: a file already in file_list matches again
aod_week_matches_again(file, file_date, file_list) ==
    file.start <= file_date /\ file_date <= file.end

\* file_start <= file_date <= file_end and file not in file_list
aod_week_matches(file, file_date, file_list) ==
    /\ file.start <= file_date
    /\ file_date <= file.end
    /\ \A j \in 1..Len(file_list) : file_list[j] # file

\* The inner loop over all_files
RECURSIVE aod_weekly_files(_, _, _, _)
aod_weekly_files(all_files, k, file_date, st) ==
    IF k > Len(all_files) THEN st
    ELSE aod_weekly_files(all_files, k + 1, file_date,
             IF aod_week_matches(all_files[k], file_date, st.file_list)
             THEN [st EXCEPT !.file_list = Append(@, all_files[k]),
                             !.total_size = @ + fs_size(all_files[k]),
                             !.reqs = Append(@, S3("size", all_files[k]))]
             ELSE st)

\* The except branch: warn, or raise ValueError
aod_weekly_except(e, warning, st) ==
    IF warning THEN [st EXCEPT !.warns = Append(@, e)]
    ELSE [st EXCEPT !.raised = TRUE, !.msg = e]

RECURSIVE aod_weekly_loop(_, _, _, _, _, _)
aod_weekly_loop(bucket, satellite, dates, i, warning, st) ==
    IF i > Len(dates) \/ st.raised THEN st
    ELSE LET prod_path == aod_weekly_dir(satellite, dates[i])
             all_files == aod_ls_weekly(bucket, prod_path)
             asked == [st EXCEPT !.reqs = Append(@, S3("ls", prod_path))]
         IN aod_weekly_loop(bucket, satellite, dates, i + 1, warning,
                IF all_files = <<>>
                THEN aod_weekly_except(Message(<<>>, prod_path), warning, asked)
                ELSE aod_weekly_files(all_files, 1, strftime_Ymd(dates[i]), asked))

aod_create_weekly_aod_list(bucket, satellite, date_generated, warning) ==
    LET invalid == aod_validate_inputs(satellite, s0_250, "weekly")
    IN IF invalid # NoResult
       THEN [Building EXCEPT !.raised = TRUE, !.msg = invalid.msg]
       ELSE aod_weekly_loop(bucket, satellite, date_generated, 1, warning, Building)

\* The if / elif / else on averaging_time of open_dataset and open_mfdataset
aod_file_list(bucket, dates, satellite, data_resolution, averaging_time, warning) ==
    IF averaging_time = "monthly"
    THEN aod_create_monthly_aod_list(bucket, satellite, dates, warning)
    ELSE IF averaging_time = "weekly"
    THEN aod_create_weekly_aod_list(bucket, satellite, dates, warning)
    ELSE aod_create_daily_aod_list(bucket, ljust(str(data_resolution), 5, "0"),
                                   satellite, dates, warning)

aod_not_available_msg(averaging_time, what, dates) ==
    Message(<<"Files", "not", "available", "for", averaging_time, "data", "and",
              what, ":">>, dates)

aod_length_msg(averaging_time) ==
    Message(<<"'dates'", "and", "discovered", "file", "list", "are", "not", "the",
              "same", "length", ".">>, averaging_time)

\* isinstance(date, str): pd.Timestamp(date), else the date itself
aod_date_generated(date) == <<date>>

aod_open_dataset(bucket, date, satellite, data_resolution, averaging_time) ==
    LET invalid == aod_validate_inputs(satellite, ljust(str(data_resolution), 5, "0"),
                                       averaging_time)
        date_generated == aod_date_generated(date)
        st == aod_file_list(bucket, date_generated, satellite, data_resolution,
                            averaging_time, FALSE)
    IN IF invalid # NoResult THEN Outcome(invalid, <<>>, <<>>)
       ELSE IF st.raised THEN Outcome(Raised("ValueError", st.msg), st.warns, st.reqs)
       ELSE IF Len(st.file_list) = 0 \/ all_None(st.file_list)
       THEN Outcome(Raised("ValueError",
                           aod_not_available_msg(averaging_time, "date", date)),
                    st.warns, st.reqs)
       ELSE Outcome(Returned(expand_dims_time(Dataset(<<st.file_list[1]>>, <<>>, FALSE),
                                              date_generated)),
                    st.warns, Append(st.reqs, S3("open", st.file_list[1])))

\* isinstance(dates, (str, datetime)), or anything pd.DatetimeIndex accepts
aod_DatetimeIndex(dates) == dates.v

\* The check of the lengths of the file list and of the dates
aod_length_mismatch(file_list, dates) == Len(file_list) # Len(dates)

\* The loop over zip(dates, file_list) that drops the None entries
aod_good(dates, file_list) ==
    LET pairs == zip(dates, file_list)
        good == SelectSeq(pairs, LAMBDA p : p[2] # None)
    IN [dates_good |-> Map(LAMBDA p : p[1], good),
        aws_files |-> Map(LAMBDA p : p[2], good)]

aod_open_mfdataset(bucket, dates, satellite, data_resolution, averaging_time, error_missing) ==
    LET invalid == aod_validate_inputs(satellite, ljust(str(data_resolution), 5, "0"),
                                       averaging_time)
        index == aod_DatetimeIndex(dates)
        st == aod_file_list(bucket, index, satellite, data_resolution, averaging_time,
                            ~error_missing)
        good == aod_good(index, st.file_list)
    IN IF invalid # NoResult THEN Outcome(invalid, <<>>, <<>>)
       ELSE IF st.raised THEN Outcome(Raised("ValueError", st.msg), st.warns, st.reqs)
       ELSE IF Len(st.file_list) = 0 \/ all_None(st.file_list)
       THEN Outcome(Raised("ValueError",
                           aod_not_available_msg(averaging_time, "dates", index)),
                    st.warns, st.reqs)
       ELSE IF aod_length_mismatch(st.file_list, index)
       THEN Outcome(Raised("ValueError", aod_length_msg(averaging_time)),
                    st.warns, st.reqs)
       ELSE Outcome(Returned([concat_time(Map(LAMBDA f : Dataset(<<f>>, <<>>, FALSE),
                                              good.aws_files))
                                EXCEPT !.time = good.dates_good, !.attached = TRUE]),
                    st.warns,
                    st.reqs \o Map(LAMBDA f : S3("open", f), good.aws_files))

\* The objects the bucket can hold: for SNPP the daily files of the days of
\* DateUniverse at 0.100 degrees and that of the first day at 0.250 degrees,
\* the files of their months and of their weeks, and a second file of the
\* first week (a later version); for NOAA20 the daily file of the first day.
AodWeeks == { <<2023, 20230101, 20230107>>, <<2023, 20230129, 20230204>> }

JpssUniverse ==
    { aod_daily_path(s0_100, "SNPP", d) : d \in DateUniverse }
    \cup { aod_daily_path(s0_250, "SNPP", TS(2023, 1, 1, 0)) }
    \cup { aod_monthly_path("SNPP", d) : d \in DateUniverse }
    \cup { aod_weekly_file("SNPP", w[1], w[2], w[3]) : w \in AodWeeks }
    \cup { [aod_weekly_file("SNPP", 2023, 20230101, 20230107) EXCEPT !.version = 1] }
    \cup { aod_daily_path(s0_100, "NOAA20", TS(2023, 1, 1, 0)) }

----------------------------------------------------------------------------
(* nesdis_avhrr_aot_aws_gridded                                            *)
(* (The module annotates with List, Tuple and Union, which it does not     *)
(* import; the model is of the bodies of its functions.)                   *)

\* An averaging_time argument: a member of the enum AveragingTime(Enum), or
\* a plain string.  A member of a plain Enum equals no string.
EnumMember(value) == [enum |-> TRUE, value |-> value]
PlainStr(value) == [enum |-> FALSE, value |-> value]
AveragingTime_DAILY == EnumMember("daily")
AveragingTime_MONTHLY == EnumMember("monthly")

AvhrrAveragingTimes ==
    {AveragingTime_DAILY, AveragingTime_MONTHLY, PlainStr("daily"), PlainStr("monthly"),
     PlainStr("weekly")}

\* An object of the bucket: data/<product>/<year>/AOT_AVHRR_<version>_<avg>_<date>_*.nc
AotKey(product, year, avg, date, version) ==
    [satellite |-> "AVHRR", product |-> product, year |-> year, avg |-> avg,
     start |-> date, end |-> 0, version |-> version]

\* fs.glob(<product dir>/<year>/AOT_AVHRR_*_daily-avg_<file_date>_*.nc)
avhrr_glob(bucket, product, year, file_date) ==
    Listing({ k \in bucket : /\ k.product = product
                             /\ k.year = year
                             /\ k.avg = "daily-avg"
                             /\ k.start = file_date })

avhrr_pattern(product, year, file_date) ==
    [product |-> product, year |-> year, avg |-> "daily-avg", start |-> file_date]

avhrr_missing_msg(product, year, file_date) ==
    Message(<<"File", "does", "not", "exist", "on", "AWS", ":">>,
            avhrr_pattern(product, year, file_date))

\* sum(fs.size(f) for f in file_names)
RECURSIVE sum_sizes(_)
sum_sizes(file_names) ==
    IF file_names = <<>> THEN 0
    ELSE fs_size(file_names[1]) + sum_sizes(Tail(file_names))

\* The loop of create_daily_aod_list (product "daily") and of
\* create_monthly_aod_list (product "monthly"), which differ in the directory
RECURSIVE avhrr_loop(_, _, _, _, _, _)
avhrr_loop(bucket, product, dates, i, warning, st) ==
    IF i > Len(dates) \/ st.raised THEN st
    ELSE LET file_date == strftime_Ymd(dates[i])
             year == strftime_Y(dates[i])
             file_names == avhrr_glob(bucket, product, year, file_date)
             asked == [st EXCEPT !.reqs =
                          Append(@, S3("glob", avhrr_pattern(product, year, file_date)))]
         IN avhrr_loop(bucket, product, dates, i + 1, warning,
                IF file_names # <<>>
                THEN [asked EXCEPT !.file_list = @ \o file_names,
                                   !.total_size = @ + sum_sizes(file_names),
                                   !.reqs = @ \o Map(LAMBDA f : S3("size", f), file_names)]
                ELSE IF warning
                THEN [asked EXCEPT
                         !.warns = Append(@, avhrr_missing_msg(product, year, file_date)),
                         !.file_list = Append(@, None)]
                ELSE [asked EXCEPT !.raised = TRUE,
                                   !.msg = avhrr_missing_msg(product, year, file_date)])

avhrr_create_daily_aod_list(bucket, date_generated, warning) ==
    avhrr_loop(bucket, "daily", date_generated, 1, warning, Building)

avhrr_create_monthly_aod_list(bucket, date_generated, warning) ==
    avhrr_loop(bucket, "monthly", date_generated, 1, warning, Building)

avhrr_averaging_time_error ==
    Raised("ValueError", Message(<<"Invalid", "input", "for", "'averaging_time'">>, <<>>))

avhrr_not_available_msg(what, dates) ==
    Message(<<"Files", "not", "available", "for", "product", "and", what, ":">>, dates)

\* The non-None entries of a file list, in order
not_None(file_list) == SelectSeq(file_list, LAMBDA f : f # None)

avhrr_open_dataset(bucket, date, averaging_time) ==
    IF averaging_time \notin {AveragingTime_MONTHLY, AveragingTime_DAILY}
    THEN Outcome(avhrr_averaging_time_error, <<>>, <<>>)
    ELSE LET st == IF averaging_time = AveragingTime_MONTHLY
                   THEN avhrr_create_monthly_aod_list(bucket, <<date>>, FALSE)
                   ELSE avhrr_create_daily_aod_list(bucket, <<date>>, FALSE)
         IN IF st.raised THEN Outcome(Raised("ValueError", st.msg), st.warns, st.reqs)
            ELSE IF Len(st.file_list) = 0 \/ all_None(st.file_list)
            THEN Outcome(Raised("ValueError", avhrr_not_available_msg("date", date)),
                         st.warns, st.reqs)
            ELSE Outcome(Returned(Dataset(<<st.file_list[1]>>, <<>>, FALSE)),
                         st.warns, Append(st.reqs, S3("open", st.file_list[1])))

avhrr_open_mfdataset(bucket, dates, averaging_time, error_missing) ==
    IF averaging_time \notin {AveragingTime_MONTHLY, AveragingTime_DAILY}
    THEN Outcome(avhrr_averaging_time_error, <<>>, <<>>)
    ELSE LET index == dates.v
             st == IF averaging_time = AveragingTime_MONTHLY
                   THEN avhrr_create_monthly_aod_list(bucket, index, ~error_missing)
                   ELSE avhrr_create_daily_aod_list(bucket, index, ~error_missing)
             aws_files == not_None(st.file_list)
         IN IF st.raised THEN Outcome(Raised("ValueError", st.msg), st.warns, st.reqs)
            ELSE IF Len(st.file_list) = 0 \/ all_None(st.file_list)
            THEN Outcome(Raised("ValueError", avhrr_not_available_msg("dates", index)),
                         st.warns, st.reqs)
            ELSE Outcome(Returned(concat_time(Map(LAMBDA f : Dataset(<<f>>, <<>>, FALSE),
                                                  aws_files))),
                         st.warns, st.reqs \o Map(LAMBDA f : S3("open", f), aws_files))

\* The objects the bucket can hold: daily files of the days of DateUniverse
\* (two versions of the first), and in the monthly directory a file named as
\* the monthly products are and one named as the daily ones are
AotUniverse ==
    { AotKey("daily", 2023, "daily-avg", strftime_Ymd(d), 0) : d \in DateUniverse }
    \cup { AotKey("daily", 2023, "daily-avg", 20230101, 1),
           AotKey("monthly", 2023, "monthly-avg", 202301, 0),
           AotKey("monthly", 2023, "daily-avg", 20230101, 0) }

----------------------------------------------------------------------------
(* nesdis_viirs_ndvi_aws_gridded *)

NdviDataTypes == {"vhi", "ndvi"}
NdviSensors == {"viirs", "ims"}

\* DATA_CONFIGS: the sensors of a data type, and the path and the pattern of
\* a data type and sensor
DATA_CONFIGS_types == {"vhi", "lai_fpar", "snow"}
DATA_CONFIGS_sensors(data_type) ==
    CASE data_type = "vhi" -> {"viirs", "avhrr"}
      [] data_type = "lai_fpar" -> {"viirs", "avhrr"}
      [] data_type = "snow" -> {"ims"}
DATA_CONFIGS(data_type, sensor) ==
    CASE data_type = "vhi" /\ sensor = "viirs" ->
            [path |-> "noaa-cdr-ndvi-pds/data/", pattern |-> "VIIRS-Land_*"]
      [] data_type = "vhi" /\ sensor = "avhrr" ->
            [path |-> "noaa-cdr-vegetation-health-pds/data/", pattern |-> "AVHRR-Land_*"]
      [] data_type = "lai_fpar" /\ sensor = "viirs" ->
            [path |-> "noaa-cdr-leaf-area-index-fapar-pds/data/", pattern |-> "VIIRS-Land_*"]
      [] data_type = "lai_fpar" /\ sensor = "avhrr" ->
            [path |-> "noaa-cdr-leaf-area-index-fapar-pds/data/", pattern |-> "AVHRR-Land_*"]
      [] data_type = "snow" /\ sensor = "ims" ->
            [path |-> "noaa-cdr-snow-cover-extent-ims-nrt/", pattern |-> "snow_cover_extent_*"]

\* validate_inputs: the error it raises, or NoResult
ndvi_validate_inputs(data_type, sensor) ==
    IF data_type \notin DATA_CONFIGS_types
    THEN Raised("ValueError", Message(<<"Unsupported", "data", "type", ":">>, data_type))
    ELSE IF sensor \notin DATA_CONFIGS_sensors(data_type)
    THEN Raised("ValueError", Message(<<"Unsupported", "sensor">>, sensor))
    ELSE NoResult

\* An object of a bucket: <path><year>/<pattern><date>_*.nc
CdrKey(path, year, pattern, date, version) ==
    [satellite |-> pattern, product |-> path, year |-> year,
     start |-> date, end |-> 0, version |-> version]

ndvi_glob(bucket, year, prod_path, pattern, file_date) ==
    Listing({ k \in bucket : /\ k.product = prod_path
                             /\ k.year = year
                             /\ k.satellite = pattern
                             /\ k.start = file_date })

CacheArgs(year, prod_path, pattern, file_date) ==
    [year |-> year, prod_path |-> prod_path, pattern |-> pattern, file_date |-> file_date]

\* _get_cached_file_list under lru_cache: the value cached for the arguments,
\* or else the glob of the bucket, which is then cached.  (maxsize=128 is
\* more than the arguments the model has, so nothing is evicted.)
_get_cached_file_list(bucket, cache, args) ==
    IF \E e \in cache : e.args = args
    THEN [file_names |-> (CHOOSE e \in cache : e.args = args).value,
          cache |-> cache, reqs |-> <<>>]
    ELSE LET file_names == ndvi_glob(bucket, args.year, args.prod_path, args.pattern,
                                     args.file_date)
         IN [file_names |-> file_names,
             cache |-> cache \cup {[args |-> args, value |-> file_names]},
             reqs |-> <<S3("glob", args)>>]

ndvi_no_files_msg(data_type, sensor, file_date) ==
    Message(<<"No", "files", "found", "for", data_type, "(", sensor, ")", "on">>, file_date)

RECURSIVE ndvi_loop(_, _, _, _, _, _, _)
ndvi_loop(bucket, data_type, sensor, dates, i, warning, st) ==
    IF i > Len(dates) \/ st.raised THEN st
    ELSE LET config == DATA_CONFIGS(data_type, sensor)
             file_date == strftime_Ymd(dates[i])
             year == strftime_Y(dates[i])
             got == _get_cached_file_list(bucket, st.cache,
                        CacheArgs(year, config.path, config.pattern, file_date))
             asked == [st EXCEPT !.cache = got.cache, !.reqs = @ \o got.reqs]
             e == ndvi_no_files_msg(data_type, sensor, file_date)
         IN ndvi_loop(bucket, data_type, sensor, dates, i + 1, warning,
                IF got.file_names # <<>>
                THEN [asked EXCEPT !.file_list = @ \o got.file_names,
                                   !.total_size = @ + sum_sizes(got.file_names),
                                   !.reqs = @ \o Map(LAMBDA f : S3("size", f), got.file_names)]
                ELSE IF warning
                THEN [asked EXCEPT !.warns = Append(@, e), !.file_list = Append(@, None)]
                ELSE [asked EXCEPT !.raised = TRUE, !.msg = e])

create_daily_data_list(bucket, cache, date_generated, data_type, sensor, warning) ==
    LET start == [file_list |-> <<>>, total_size |-> 0, warns |-> <<>>, reqs |-> <<>>,
                  raised |-> FALSE, msg |-> Message(<<>>, <<>>), cache |-> cache]
        invalid == ndvi_validate_inputs(data_type, sensor)
    IN IF invalid # NoResult THEN [start EXCEPT !.raised = TRUE, !.msg = invalid.msg]
       ELSE ndvi_loop(bucket, data_type, sensor, date_generated, 1, warning, start)

ndvi_not_available_msg(data_type, sensor, what, dates) ==
    Message(<<"Files", "not", "available", "for", data_type, "(", sensor, ")", "and",
              what, ":">>, dates)

\* process_timeofday: decodes the dataset; the files and the time coordinate
\* stay as they are
process_timeofday(dataset) == dataset

\* The result of a call, with the cache as the call leaves it
Cached(out, cache) == [out |-> out, cache |-> cache]

ndvi_open_dataset(bucket, cache, date, data_type, sensor) ==
    LET st == create_daily_data_list(bucket, cache, <<date>>, data_type, sensor, FALSE)
    IN Cached(
        IF st.raised THEN Outcome(Raised("ValueError", st.msg), st.warns, st.reqs)
        ELSE IF Len(st.file_list) = 0 \/ all_None(st.file_list)
        THEN Outcome(Raised("ValueError",
                            ndvi_not_available_msg(data_type, sensor, "date", date)),
                     st.warns, st.reqs)
        ELSE Outcome(Returned(process_timeofday(Dataset(<<st.file_list[1]>>, <<>>, FALSE))),
                     st.warns, Append(st.reqs, S3("open", st.file_list[1]))),
        st.cache)

ndvi_open_mfdataset(bucket, cache, dates, data_type, sensor, error_missing) ==
    LET index == dates.v
        st == create_daily_data_list(bucket, cache, index, data_type, sensor,
                                     ~error_missing)
        aws_files == not_None(st.file_list)
    IN Cached(
        IF st.raised THEN Outcome(Raised("ValueError", st.msg), st.warns, st.reqs)
        ELSE IF Len(st.file_list) = 0 \/ all_None(st.file_list)
        THEN Outcome(Raised("ValueError",
                            ndvi_not_available_msg(data_type, sensor, "dates", index)),
                     st.warns, st.reqs)
        ELSE Outcome(Returned(process_timeofday(
                         concat_time(Map(LAMBDA f : Dataset(<<f>>, <<>>, FALSE),
                                         aws_files)))),
                     st.warns, st.reqs \o Map(LAMBDA f : S3("open", f), aws_files)),
        st.cache)

\* The objects the buckets can hold: VIIRS files of the days of DateUniverse
\* (two versions of the first), and an AVHRR file of the first day
CdrUniverse ==
    { CdrKey("noaa-cdr-ndvi-pds/data/", 2023, "VIIRS-Land_*", strftime_Ymd(d), 0) :
        d \in DateUniverse }
    \cup { CdrKey("noaa-cdr-ndvi-pds/data/", 2023, "VIIRS-Land_*", 20230101, 1),
           CdrKey("noaa-cdr-vegetation-health-pds/data/", 2023, "AVHRR-Land_*",
                  20230101, 0) }

----------------------------------------------------------------------------
(* State machine *)

Idle ==
    /\ pc = "idle"
    /\ call = NoCall
    /\ result = NoResult
    /\ warns = <<>>
    /\ reqs = <<>>

Init ==
    /\ nesdis = {}
    /\ jpss = {}
    /\ aot = {}
    /\ cdr = {}
    /\ glob_cache = {}
    /\ Idle

Finished(c, out) ==
    /\ pc' = "done"
    /\ call' = c
    /\ result' = out.result
    /\ warns' = out.warns
    /\ reqs' = out.reqs

\* The caller has looked at the outcome of the call; the next call can start.
Finish ==
    /\ pc = "done"
    /\ pc' = "idle"
    /\ call' = NoCall
    /\ result' = NoResult
    /\ warns' = <<>>
    /\ reqs' = <<>>
    /\ UNCHANGED <<nesdis, jpss, aot, cdr, glob_cache>>

\* The modules share nothing, and a behaviour follows one of them: files
\* appear on its store, and its open_dataset and open_mfdataset are called
\* while the other stores, and the cache unless the store is that of the NDVI
\* module, are as they were at the start.
OnlyStore(store) ==
    /\ \A other \in {nesdis, jpss, aot, cdr} \ {store} : other = {}
    /\ glob_cache = {} \/ store = cdr

\* A file appears on the NESDIS server.
NesdisPublish ==
    /\ pc = "idle"
    /\ OnlyStore(nesdis)
    /\ Cardinality(nesdis) < MaxFiles
    /\ \E u \in NesdisUniverse \ nesdis : nesdis' = nesdis \cup {u}
    /\ UNCHANGED <<jpss, aot, cdr, glob_cache, pc, call, result, warns, reqs>>

NrtCall(fn, dates, satellite, data_resolution, daily, error_missing) ==
    [module |-> "nrt", fn |-> fn, dates |-> dates, satellite |-> satellite,
     data_resolution |-> data_resolution, daily |-> daily,
     error_missing |-> error_missing]

NrtOpenDataset ==
    /\ pc = "idle"
    /\ OnlyStore(nesdis)
    /\ \E date \in DateUniverse, satellite \in NrtSatellites,
          data_resolution \in NrtResolutions, daily \in BOOLEAN :
          Finished(NrtCall("open_dataset", Scalar(date), satellite, data_resolution,
                           daily, FALSE),
                   nrt_open_dataset(nesdis, date, satellite, data_resolution, daily))
    /\ UNCHANGED <<nesdis, jpss, aot, cdr, glob_cache>>

NrtOpenMfdataset ==
    /\ pc = "idle"
    /\ OnlyStore(nesdis)
    /\ \E dates \in {Scalar(d) : d \in DateUniverse}
                    \cup {Iterable(s) : s \in DateLists(MaxDates)},
          satellite \in NrtSatellites, data_resolution \in NrtResolutions,
          daily \in BOOLEAN, error_missing \in BOOLEAN :
          Finished(NrtCall("open_mfdataset", dates, satellite, data_resolution,
                           daily, error_missing),
                   nrt_open_mfdataset(nesdis, dates, satellite, data_resolution,
                                      daily, error_missing))
    /\ UNCHANGED <<nesdis, jpss, aot, cdr, glob_cache>>

\* An object appears in the noaa-jpss bucket.
JpssPublish ==
    /\ pc = "idle"
    /\ OnlyStore(jpss)
    /\ Cardinality(jpss) < MaxFiles
    /\ \E k \in JpssUniverse \ jpss : jpss' = jpss \cup {k}
    /\ UNCHANGED <<nesdis, aot, cdr, glob_cache, pc, call, result, warns, reqs>>

AodCall(fn, dates, satellite, data_resolution, averaging_time, error_missing) ==
    [module |-> "aod", fn |-> fn, dates |-> dates, satellite |-> satellite,
     data_resolution |-> data_resolution, averaging_time |-> averaging_time,
     error_missing |-> error_missing]

AodOpenDataset ==
    /\ pc = "idle"
    /\ OnlyStore(jpss)
    /\ \E date \in DateUniverse, satellite \in AodSatellites,
          data_resolution \in AodResolutionForms, averaging_time \in AodAveragingTimes :
          Finished(AodCall("open_dataset", Scalar(date), satellite, data_resolution,
                           averaging_time, TRUE),
                   aod_open_dataset(jpss, date, satellite, data_resolution,
                                    averaging_time))
    /\ UNCHANGED <<nesdis, jpss, aot, cdr, glob_cache>>

AodOpenMfdataset ==
    /\ pc = "idle"
    /\ OnlyStore(jpss)
    /\ \E dates \in {Scalar(d) : d \in DateUniverse}
                    \cup {Iterable(s) : s \in DateLists(MaxDates)},
          satellite \in AodSatellites, data_resolution \in AodResolutions,
          averaging_time \in AodAveragingTimes, error_missing \in BOOLEAN :
          Finished(AodCall("open_mfdataset", dates, satellite, data_resolution,
                           averaging_time, error_missing),
                   aod_open_mfdataset(jpss, dates, satellite, data_resolution,
                                      averaging_time, error_missing))
    /\ UNCHANGED <<nesdis, jpss, aot, cdr, glob_cache>>

AodBuilderCall(fn, data_resolution, satellite, date_generated, warning) ==
    [module |-> "aod", fn |-> fn, dates |-> Iterable(date_generated),
     satellite |-> satellite, data_resolution |-> data_resolution, warning |-> warning]

AodCreateDailyList ==
    /\ pc = "idle"
    /\ OnlyStore(jpss)
    /\ \E data_resolution \in {s0_050, s0_100, s0_250, <<"0", ".", "1">>},
          satellite \in AodSatellites, date_generated \in DateLists(MaxDates),
          warning \in BOOLEAN :
          Finished(AodBuilderCall("create_daily_aod_list", data_resolution, satellite,
                                  date_generated, warning),
                   Built(aod_create_daily_aod_list(jpss, data_resolution, satellite,
                                                   date_generated, warning)))
    /\ UNCHANGED <<nesdis, jpss, aot, cdr, glob_cache>>

AodCreateMonthlyList ==
    /\ pc = "idle"
    /\ OnlyStore(jpss)
    /\ \E satellite \in AodSatellites, date_generated \in DateLists(MaxDates),
          warning \in BOOLEAN :
          Finished(AodBuilderCall("create_monthly_aod_list", s0_250, satellite,
                                  date_generated, warning),
                   Built(aod_create_monthly_aod_list(jpss, satellite, date_generated,
                                                     warning)))
    /\ UNCHANGED <<nesdis, jpss, aot, cdr, glob_cache>>

AodCreateWeeklyList ==
    /\ pc = "idle"
    /\ OnlyStore(jpss)
    /\ \E satellite \in AodSatellites, date_generated \in DateLists(MaxDates),
          warning \in BOOLEAN :
          Finished(AodBuilderCall("create_weekly_aod_list", s0_250, satellite,
                                  date_generated, warning),
                   Built(aod_create_weekly_aod_list(jpss, satellite, date_generated,
                                                    warning)))
    /\ UNCHANGED <<nesdis, jpss, aot, cdr, glob_cache>>

NextAOD ==
    \/ JpssPublish
    \/ AodCreateDailyList
    \/ AodCreateMonthlyList
    \/ AodCreateWeeklyList
    \/ AodOpenDataset
    \/ AodOpenMfdataset
    \/ Finish

SpecAOD == Init /\ [][NextAOD]_vars

\* An object appears in the AVHRR bucket.
AotPublish ==
    /\ pc = "idle"
    /\ OnlyStore(aot)
    /\ Cardinality(aot) < MaxFiles
    /\ \E k \in AotUniverse \ aot : aot' = aot \cup {k}
    /\ UNCHANGED <<nesdis, jpss, cdr, glob_cache, pc, call, result, warns, reqs>>

AvhrrCall(fn, dates, averaging_time, warning) ==
    [module |-> "avhrr", fn |-> fn, dates |-> dates, averaging_time |-> averaging_time,
     warning |-> warning, error_missing |-> ~warning]

AvhrrCreateDailyList ==
    /\ pc = "idle"
    /\ OnlyStore(aot)
    /\ \E date_generated \in DateLists(MaxDates), warning \in BOOLEAN :
          Finished(AvhrrCall("create_daily_aod_list", Iterable(date_generated),
                             AveragingTime_DAILY, warning),
                   Built(avhrr_create_daily_aod_list(aot, date_generated, warning)))
    /\ UNCHANGED <<nesdis, jpss, aot, cdr, glob_cache>>

AvhrrCreateMonthlyList ==
    /\ pc = "idle"
    /\ OnlyStore(aot)
    /\ \E date_generated \in DateLists(MaxDates), warning \in BOOLEAN :
          Finished(AvhrrCall("create_monthly_aod_list", Iterable(date_generated),
                             AveragingTime_MONTHLY, warning),
                   Built(avhrr_create_monthly_aod_list(aot, date_generated, warning)))
    /\ UNCHANGED <<nesdis, jpss, aot, cdr, glob_cache>>

AvhrrOpenDataset ==
    /\ pc = "idle"
    /\ \E date \in DateUniverse, averaging_time \in AvhrrAveragingTimes :
          Finished(AvhrrCall("open_dataset", Scalar(date), averaging_time, FALSE),
                   avhrr_open_dataset(aot, date, averaging_time))
    /\ UNCHANGED <<nesdis, jpss, aot, cdr, glob_cache>>

AvhrrOpenMfdataset ==
    /\ pc = "idle"
    /\ \E dates \in {Scalar(d) : d \in DateUniverse}
                    \cup {Iterable(s) : s \in DateLists(MaxDates)},
          averaging_time \in AvhrrAveragingTimes, error_missing \in BOOLEAN :
          Finished(AvhrrCall("open_mfdataset", dates, averaging_time, ~error_missing),
                   avhrr_open_mfdataset(aot, dates, averaging_time, error_missing))
    /\ UNCHANGED <<nesdis, jpss, aot, cdr, glob_cache>>

NextAVHRR ==
    \/ AotPublish
    \/ AvhrrCreateDailyList
    \/ AvhrrCreateMonthlyList
    \/ AvhrrOpenDataset
    \/ AvhrrOpenMfdataset
    \/ Finish

SpecAVHRR == Init /\ [][NextAVHRR]_vars

\* An object appears in one of the noaa-cdr buckets.
CdrPublish ==
    /\ pc = "idle"
    /\ OnlyStore(cdr)
    /\ Cardinality(cdr) < MaxFiles
    /\ \E k \in CdrUniverse \ cdr : cdr' = cdr \cup {k}
    /\ UNCHANGED <<nesdis, jpss, aot, glob_cache, pc, call, result, warns, reqs>>

NdviCall(fn, dates, data_type, sensor, warning) ==
    [module |-> "ndvi", fn |-> fn, dates |-> dates, data_type |-> data_type,
     sensor |-> sensor, warning |-> warning, error_missing |-> ~warning]

NdviFinished(c, cached) ==
    /\ Finished(c, cached.out)
    /\ glob_cache' = cached.cache

NdviCreateDailyList ==
    /\ pc = "idle"
    /\ OnlyStore(cdr)
    /\ \E date_generated \in DateLists(MaxDates), data_type \in NdviDataTypes,
          sensor \in NdviSensors, warning \in BOOLEAN :
          LET st == create_daily_data_list(cdr, glob_cache, date_generated, data_type,
                                           sensor, warning)
          IN NdviFinished(NdviCall("create_daily_data_list", Iterable(date_generated),
                                   data_type, sensor, warning),
                          Cached(Built(st), st.cache))
    /\ UNCHANGED <<nesdis, jpss, aot, cdr>>

NdviOpenDataset ==
    /\ pc = "idle"
    /\ \E date \in DateUniverse, data_type \in NdviDataTypes, sensor \in NdviSensors :
          NdviFinished(NdviCall("open_dataset", Scalar(date), data_type, sensor, FALSE),
                       ndvi_open_dataset(cdr, glob_cache, date, data_type, sensor))
    /\ UNCHANGED <<nesdis, jpss, aot, cdr>>

NdviOpenMfdataset ==
    /\ pc = "idle"
    /\ \E dates \in {Scalar(d) : d \in DateUniverse}
                    \cup {Iterable(s) : s \in DateLists(MaxDates)},
          data_type \in NdviDataTypes, sensor \in NdviSensors,
          error_missing \in BOOLEAN :
          NdviFinished(NdviCall("open_mfdataset", dates, data_type, sensor,
                                ~error_missing),
                       ndvi_open_mfdataset(cdr, glob_cache, dates, data_type, sensor,
                                           error_missing))
    /\ UNCHANGED <<nesdis, jpss, aot, cdr>>

NextNDVI ==
    \/ CdrPublish
    \/ NdviCreateDailyList
    \/ NdviOpenDataset
    \/ NdviOpenMfdataset
    \/ Finish

SpecNDVI == Init /\ [][NextNDVI]_vars

NextNRT == NesdisPublish \/ NrtOpenDataset \/ NrtOpenMfdataset \/ Finish

SpecNRT == Init /\ [][NextNRT]_vars

NrtBuildUrls ==
    /\ pc = "idle"
    /\ \E dates \in {Scalar(d) : d \in DateUniverse}
                    \cup {Iterable(s) : s \in DateLists(MaxDates)},
          satellite \in NrtSatellites, data_resolution \in NrtResolutions,
          daily \in BOOLEAN :
          Finished(NrtCall("build_urls", dates, satellite, data_resolution, daily, FALSE),
                   nrt_build_urls(dates, daily, data_resolution, satellite))
    /\ UNCHANGED <<nesdis, jpss, aot, cdr, glob_cache>>

\* open_mfdataset(dates, data_resolution=..., daily=...): satellite and
\* error_missing are left at their defaults, the list of dates is longer
NrtOpenMfdatasetOfDates ==
    /\ pc = "idle"
    /\ OnlyStore(nesdis)
    /\ \E s \in DateLists(MaxSlices), data_resolution \in {f0_1, f0_25},
          daily \in BOOLEAN :
          Finished(NrtCall("open_mfdataset", Iterable(s), "NOAA20", data_resolution,
                           daily, FALSE),
                   nrt_open_mfdataset(nesdis, Iterable(s), "NOAA20", data_resolution,
                                      daily, FALSE))
    /\ UNCHANGED <<nesdis, jpss, aot, cdr, glob_cache>>

NextNRTDates == NesdisPublish \/ NrtOpenMfdatasetOfDates \/ Finish

SpecNRTDates == Init /\ [][NextNRTDates]_vars

\* The file-list builders of the three AWS modules, each on its own bucket
NextBuilders ==
    \/ JpssPublish
    \/ AotPublish
    \/ CdrPublish
    \/ AodCreateDailyList
    \/ AodCreateMonthlyList
    \/ AodCreateWeeklyList
    \/ AvhrrCreateDailyList
    \/ AvhrrCreateMonthlyList
    \/ NdviCreateDailyList
    \/ Finish

SpecBuilders == Init /\ [][NextBuilders]_vars

\* open_dataset and open_mfdataset of the two VIIRS AOD modules
NextValidation ==
    \/ NesdisPublish
    \/ JpssPublish
    \/ NrtOpenDataset
    \/ NrtOpenMfdataset
    \/ AodOpenDataset
    \/ AodOpenMfdataset
    \/ Finish

SpecValidation == Init /\ [][NextValidation]_vars

\* The functions that put dates into buckets of months and days
NextBucketing == JpssPublish \/ AodCreateMonthlyList \/ NrtBuildUrls \/ Finish

SpecBucketing == Init /\ [][NextBucketing]_vars

----------------------------------------------------------------------------
(* Properties: nesdis_eps_viirs_aod_nrt *)

FailedToAccessFile == <<"Failed", "to", "access", "file">>
FilesNotAvailable == <<"Files", "not", "available", "for", "product", "and", "dates">>

\* The warnings of the call that match a pattern, in order
RECURSIVE Matching(_, _)
Matching(pattern, ws) ==
    IF ws = <<>> THEN <<>>
    ELSE LET init == Matching(pattern, SubSeq(ws, 1, Len(ws) - 1))
             w == ws[Len(ws)]
         IN IF Matches(pattern, w) THEN Append(init, w) ELSE init

NrtDone(fn) == pc = "done" /\ call.module = "nrt" /\ call.fn = fn
NrtAccepted ==
    /\ lower(call.satellite) \in {"noaa20", "snpp"}
    /\ call.data_resolution \in {f0_1, f0_25}
\* The URLs built for the call
NrtUrls == build_urls(call.dates, call.daily, call.data_resolution, call.satellite).urls
NrtAvailable == LET urls == NrtUrls IN {i \in 1..Len(urls) : urls[i] \in nesdis}
NrtMissing == LET urls == NrtUrls IN {i \in 1..Len(urls) : urls[i] \notin nesdis}

\* C4: open_mfdataset with error_missing=False and at least one date
\* available requests each built URL exactly once, in order, emits one
\* 'Failed to access file' warning per URL that is not answered with 200,
\* and returns a dataset with as many time entries as URLs answered with 200.
C4_OneRequestPerUrl ==
    (NrtDone("open_mfdataset") /\ NrtAccepted /\ ~call.error_missing
        /\ NrtAvailable # {})
    => /\ reqs = Map(GET, NrtUrls)
       /\ \A i, j \in 1..Len(reqs) : i # j => reqs[i] # reqs[j]
       /\ LET failed == Matching(FailedToAccessFile, warns)
          IN /\ Map(LAMBDA w : w.arg, failed)
                  = SelectSeq(NrtUrls, LAMBDA u : u \notin nesdis)
             /\ Len(failed) = Cardinality(NrtMissing)
       /\ result.kind = "return"
       /\ Len(result.dset.time) = Cardinality(NrtAvailable)

C4_Witness ==
    /\ NrtDone("open_mfdataset") /\ NrtAccepted /\ ~call.error_missing
    /\ Len(NrtUrls) = 2
    /\ Cardinality(NrtAvailable) = 1
    /\ Len(reqs) = 2
    /\ result.kind = "return"

\* C5: open_mfdataset with error_missing=True raises RuntimeError 'Failed to
\* access file' at the first URL not answered with 200; no later URL is
\* requested and no dataset is returned.
C5_RaiseAtFirstMissing ==
    (NrtDone("open_mfdataset") /\ NrtAccepted /\ call.error_missing
        /\ NrtMissing # {})
    => LET urls == NrtUrls
           missing == NrtMissing
           first == CHOOSE k \in missing : \A j \in missing : k <= j
       IN /\ result.kind = "raise"
          /\ result.exc = "RuntimeError"
          /\ Matches(FailedToAccessFile, result.msg)
          /\ result.msg.arg = urls[first]
          /\ reqs = Map(GET, SubSeq(urls, 1, first))
          /\ result.dset = NoDataset

C5_Witness ==
    /\ NrtDone("open_mfdataset") /\ NrtAccepted /\ call.error_missing
    /\ Len(NrtUrls) = 2
    /\ NrtMissing = {1}
    /\ result.exc = "RuntimeError"
    /\ Len(reqs) = 1

\* C6: open_mfdataset with error_missing=True on [an unavailable date, an
\* available date] raises RuntimeError 'Failed to access file' and also
\* emits a warning 'Failed to access file' during the same call.
C6_RaiseAndWarn ==
    (NrtDone("open_mfdataset") /\ NrtAccepted /\ call.error_missing
        /\ call.dates.iterable /\ Len(NrtUrls) = 2
        /\ NrtMissing = {1} /\ NrtAvailable = {2})
    => /\ result.kind = "raise"
       /\ result.exc = "RuntimeError"
       /\ Matches(FailedToAccessFile, result.msg)
       /\ Matching(FailedToAccessFile, warns) # <<>>

\* C7: open_mfdataset with error_missing=False on dates none of which is
\* available emits a 'Failed to access file' warning for each URL and then
\* raises ValueError 'Files not available for product and dates'; no call
\* of open_mfdataset returns an empty dataset.
C7_NoneAvailable ==
    /\ (NrtDone("open_mfdataset") /\ NrtAccepted /\ ~call.error_missing
           /\ NrtAvailable = {})
       => /\ LET failed == Matching(FailedToAccessFile, warns)
             IN Map(LAMBDA w : w.arg, failed) = NrtUrls
          /\ result.kind = "raise"
          /\ result.exc = "ValueError"
          /\ Matches(FilesNotAvailable, result.msg)
    /\ (NrtDone("open_mfdataset") /\ result.kind = "return")
       => /\ result.dset.files # <<>>
          /\ result.dset.time # <<>>

C7_Witness ==
    /\ NrtDone("open_mfdataset") /\ NrtAccepted /\ ~call.error_missing
    /\ Len(NrtUrls) = 2
    /\ NrtAvailable = {}
    /\ nesdis # {}
    /\ Len(warns) = 2
    /\ result.exc = "ValueError"

\* C8 as stated: open_dataset for a valid satellite and resolution and a
\* date whose file is absent raises HTTPError, emits no warning and returns
\* no dataset.
C8_NoWarningAtAll ==
    (NrtDone("open_dataset") /\ NrtAccepted /\ NrtUrls[1] \notin nesdis)
    => /\ result.kind = "raise"
       /\ result.exc = "HTTPError"
       /\ warns = <<>>
       /\ result.dset = NoDataset

\* C8, amended: open_dataset for a valid satellite and resolution and a date
\* whose file is absent raises HTTPError and returns no dataset; it emits no
\* 'Failed to access file' warning, and no warning at all unless monthly
\* data is asked for at a resolution other than 0.25, when build_urls emits
\* its one warning 'Monthly data is only available at 0.25 deg resolution'.
C8_HTTPError ==
    (NrtDone("open_dataset") /\ NrtAccepted /\ NrtUrls[1] \notin nesdis)
    => /\ result.kind = "raise"
       /\ result.exc = "HTTPError"
       /\ result.dset = NoDataset
       /\ Matching(FailedToAccessFile, warns) = <<>>
       /\ IF ~call.daily /\ call.data_resolution # f0_25
          THEN /\ Len(warns) = 1
               /\ Matches(<<"Monthly", "data", "is", "only", "available">>, warns[1])
          ELSE warns = <<>>

C8_Witness ==
    /\ NrtDone("open_dataset") /\ NrtAccepted /\ NrtUrls[1] \notin nesdis
    /\ nesdis # {}
    /\ ~call.daily /\ call.data_resolution = f0_1
    /\ result.exc = "HTTPError"
    /\ Len(warns) = 1

----------------------------------------------------------------------------
(* Properties: the file-list builders and the AWS modules *)

Done(module, fn) == pc = "done" /\ call.module = module /\ call.fn = fn

BuilderFns ==
    {"create_daily_aod_list", "create_monthly_aod_list", "create_weekly_aod_list",
     "create_daily_data_list"}

\* The builder accepts the arguments of the call (validate_inputs passes)
BuilderAccepts ==
    CASE call.module = "aod" ->
            aod_validate_inputs(call.satellite, call.data_resolution,
                CASE call.fn = "create_daily_aod_list" -> "daily"
                  [] call.fn = "create_monthly_aod_list" -> "monthly"
                  [] call.fn = "create_weekly_aod_list" -> "weekly") = NoResult
      [] call.module = "avhrr" -> TRUE
      [] call.module = "ndvi" -> ndvi_validate_inputs(call.data_type, call.sensor) = NoResult

\* The remote store holds a file for the date, as the called builder (or the
\* builder that serves the called open_* function) looks for it
AodHasFile(product, d) ==
    CASE product = "daily" ->
            \E k \in jpss : /\ k.product = "Daily"
                            /\ k.satellite = call.satellite
                            /\ k.res = ljust(IF call.fn = "create_daily_aod_list"
                                             THEN call.data_resolution
                                             ELSE str(call.data_resolution), 5, "0")
                            /\ k.start = strftime_Ymd(d)
      [] product = "monthly" ->
            \E k \in jpss : /\ k.product = "Monthly"
                            /\ k.satellite = call.satellite
                            /\ k.start = strftime_Ym(d)
      [] product = "weekly" ->
            \E k \in jpss : /\ k.product = "Weekly"
                            /\ k.satellite = call.satellite
                            /\ k.start <= strftime_Ymd(d)
                            /\ strftime_Ymd(d) <= k.end

AvhrrHasFile(product, d) ==
    \E k \in aot : /\ k.product = product
                   /\ k.avg = "daily-avg"
                   /\ k.start = strftime_Ymd(d)

NdviHasFile(d) ==
    \E k \in cdr : /\ k.product = DATA_CONFIGS(call.data_type, call.sensor).path
                   /\ k.satellite = DATA_CONFIGS(call.data_type, call.sensor).pattern
                   /\ k.start = strftime_Ymd(d)

BuilderHasFile(d) ==
    CASE call.module = "aod" ->
            AodHasFile(CASE call.fn = "create_daily_aod_list" -> "daily"
                         [] call.fn = "create_monthly_aod_list" -> "monthly"
                         [] call.fn = "create_weekly_aod_list" -> "weekly", d)
      [] call.module = "avhrr" ->
            AvhrrHasFile(IF call.fn = "create_daily_aod_list" THEN "daily" ELSE "monthly", d)
      [] call.module = "ndvi" -> NdviHasFile(d)

Requested == call.dates.v
CountNone(file_list) == Cardinality({i \in 1..Len(file_list) : file_list[i] = None})

\* The dates a builder is asked about: the monthly builder of the VIIRS AOD
\* module is asked about a month once, by its first date
Asked ==
    IF call.module = "aod" /\ call.fn = "create_monthly_aod_list"
    THEN {i \in 1..Len(Requested) :
            \A j \in 1..(i - 1) : strftime_Ym(Requested[j]) # strftime_Ym(Requested[i])}
    ELSE 1..Len(Requested)

\* C1: every file-list builder applies the same policy to each requested
\* date without a file on the remote store: with warning=False it raises
\* ValueError; with warning=True it warns and appends exactly one None for
\* that date to the list it returns.
C1_UniformMissingPolicy ==
    (pc = "done" /\ call.fn \in BuilderFns /\ BuilderAccepts)
    => LET missing == {i \in Asked : ~BuilderHasFile(Requested[i])}
       IN IF call.warning
          THEN /\ result.kind = "return"
               /\ CountNone(result.file_list) = Cardinality(missing)
               /\ Len(warns) = Cardinality(missing)
          ELSE missing # {} => (result.kind = "raise" /\ result.exc = "ValueError")

\* C2: every adapter's open_dataset, when it returns, returns a dataset to
\* which the adapter has attached a time axis of length 1 whose single value
\* is the requested date.
C2_TimeAxisAttached ==
    (pc = "done" /\ call.fn = "open_dataset" /\ result.kind = "return")
    => /\ result.dset.attached
       /\ result.dset.time = <<Requested[1]>>

AodAccepted ==
    aod_validate_inputs(call.satellite, ljust(str(call.data_resolution), 5, "0"),
                        call.averaging_time) = NoResult

\* C3: open_mfdataset of the VIIRS AOD AWS module with error_missing=False
\* skips, for every averaging time, each date that has no file and goes on:
\* if at least one requested date has a file it returns a dataset over the
\* dates that were found; with error_missing=True a missing date raises.
C3_SkipMissingAndContinue ==
    (Done("aod", "open_mfdataset") /\ AodAccepted)
    => LET found == {i \in 1..Len(Requested) :
                        AodHasFile(call.averaging_time, Requested[i])}
           missing == (1..Len(Requested)) \ found
       IN IF call.error_missing
          THEN missing # {} => result.kind = "raise"
          ELSE (missing # {} /\ found # {})
               => /\ result.kind = "return"
                  /\ result.dset.time
                       = SelectSeq(Requested,
                                   LAMBDA d : AodHasFile(call.averaging_time, d))
                  /\ Len(warns) = Cardinality(missing)

FileDoesNotExistOnAWS == <<"File", "does", "not", "exist", "on", "AWS", ":">>

NdviAccepted == ndvi_validate_inputs(call.data_type, call.sensor) = NoResult

\* C9: in the NDVI module a requested date with no matching file is reported
\* with a message matching 'File does not exist on AWS:': a ValueError from
\* open_dataset and from open_mfdataset with error_missing=True, a warning
\* from open_mfdataset with error_missing=False.
C9_FileDoesNotExistMessage ==
    (pc = "done" /\ call.module = "ndvi" /\ NdviAccepted
        /\ call.fn \in {"open_dataset", "open_mfdataset"}
        /\ \E i \in 1..Len(Requested) : ~NdviHasFile(Requested[i]))
    => IF call.fn = "open_dataset" \/ call.error_missing
       THEN /\ result.kind = "raise"
            /\ result.exc = "ValueError"
            /\ Matches(FileDoesNotExistOnAWS, result.msg)
       ELSE \E i \in 1..Len(warns) : Matches(FileDoesNotExistOnAWS, warns[i])

\* The files of the dates of the call that have files, in the order of the
\* dates
RECURSIVE NdviFilesOf(_)
NdviFilesOf(dates) ==
    IF dates = <<>> THEN <<>>
    ELSE LET config == DATA_CONFIGS(call.data_type, call.sensor)
         IN ndvi_glob(cdr, strftime_Y(dates[1]), config.path, config.pattern,
                      strftime_Ymd(dates[1]))
            \o NdviFilesOf(Tail(dates))

\* C10: open_mfdataset of the NDVI module with error_missing=False returns a
\* dataset built from exactly the files of the dates that were found when at
\* least one date is found, and raises ValueError matching 'Files not
\* available for product and dates' when no requested date is found.
C10_FoundFilesOrNotAvailable ==
    (Done("ndvi", "open_mfdataset") /\ NdviAccepted /\ ~call.error_missing)
    => IF \E i \in 1..Len(Requested) : NdviHasFile(Requested[i])
       THEN /\ result.kind = "return"
            /\ result.dset.files = NdviFilesOf(Requested)
       ELSE /\ result.kind = "raise"
            /\ result.exc = "ValueError"
            /\ Matches(FilesNotAvailable, result.msg)

----------------------------------------------------------------------------
(* Properties: nesdis_viirs_aod_aws_gridded, the arguments *)

\* The data_resolution values the docstrings name as valid: those whose
\* padded form is a resolution of the daily product
AodDocumentedResolutions ==
    { r \in AodResolutions :
        ljust(str(r), 5, "0") \in PRODUCT_CONFIG_resolutions("daily") }

\* What the caller sees of an outcome: success or the error raised, and the
\* files the dataset was read from
AodSeen(out) ==
    [kind |-> out.result.kind, exc |-> out.result.exc, files |-> out.result.dset.files]

\* The outcome of the call of this state, had it been made with the
\* data_resolution r
AodCallWith(r) ==
    IF call.fn = "open_dataset"
    THEN aod_open_dataset(jpss, call.dates.v[1], call.satellite, r, call.averaging_time)
    ELSE aod_open_mfdataset(jpss, call.dates, call.satellite, r, call.averaging_time,
                            call.error_missing)

\* C11: for averaging_time 'weekly' or 'monthly', open_dataset and
\* open_mfdataset of the VIIRS AOD AWS module produce the same outcome (same
\* error or success, same files) whichever valid data_resolution they are
\* given, the default 0.1 included.
C11_ResolutionWithoutEffect ==
    (pc = "done" /\ call.module = "aod"
        /\ call.fn \in {"open_dataset", "open_mfdataset"}
        /\ call.averaging_time \in {"weekly", "monthly"}
        /\ call.data_resolution \in AodDocumentedResolutions)
    => \A r \in AodDocumentedResolutions :
          AodSeen(AodCallWith(r)) = AodSeen(Outcome(result, warns, reqs))

----------------------------------------------------------------------------
(* Properties: nesdis_avhrr_aot_aws_gridded, the arguments *)

InvalidAveragingTime == <<"Invalid", "input", "for", "'averaging_time'">>

\* The call was turned down for its averaging_time
AvhrrRejected ==
    /\ result.kind = "raise"
    /\ result.exc = "ValueError"
    /\ Matches(InvalidAveragingTime, result.msg)

\* C12: open_dataset and open_mfdataset of the AVHRR module accept the
\* averaging_time values 'daily' and 'monthly' and look for files in the
\* daily or the monthly directory respectively; any other averaging_time
\* raises ValueError 'Invalid input for averaging_time'.
C12_AcceptsDailyAndMonthly ==
    (pc = "done" /\ call.module = "avhrr"
        /\ call.fn \in {"open_dataset", "open_mfdataset"})
    => IF call.averaging_time.value \in {"daily", "monthly"}
       THEN /\ ~AvhrrRejected
            /\ Requested # <<>> => reqs # <<>>
            /\ \A i \in 1..Len(reqs) : reqs[i].url.product = call.averaging_time.value
       ELSE AvhrrRejected /\ reqs = <<>>

----------------------------------------------------------------------------
(* Properties: the file-list builders and the store *)

\* The list create_daily_data_list returns for the dates when it reads the
\* store as it is now: the files of each date, or None for a date without
\* files
RECURSIVE NdviListOf(_)
NdviListOf(dates) ==
    IF dates = <<>> THEN <<>>
    ELSE LET found == NdviFilesOf(<<dates[1]>>)
         IN (IF found = <<>> THEN <<None>> ELSE found) \o NdviListOf(Tail(dates))

\* The query create_daily_data_list makes of the store for a date
NdviQuery(d) ==
    LET config == DATA_CONFIGS(call.data_type, call.sensor)
    IN S3("glob", CacheArgs(strftime_Y(d), config.path, config.pattern, strftime_Ymd(d)))

\* C13: there is no caching layer: a call of create_daily_data_list of the
\* NDVI module queries the store for each requested date, and what it
\* returns reflects the store at the time of the call; a date an earlier
\* call reported missing is reported found once its file is on the store.
C13_NoCachingLayer ==
    (Done("ndvi", "create_daily_data_list") /\ NdviAccepted)
    => IF call.warning \/ \A i \in 1..Len(Requested) : NdviHasFile(Requested[i])
       THEN /\ result.kind = "return"
            /\ result.file_list = NdviListOf(Requested)
            /\ \A i \in 1..Len(Requested) :
                  \E j \in 1..Len(reqs) : reqs[j] = NdviQuery(Requested[i])
       ELSE result.kind = "raise"

----------------------------------------------------------------------------
(* Properties: buckets of months, days and weeks *)

Range(s) == { s[i] : i \in 1..Len(s) }

\* The place of the first occurrence of k in keys
FirstIndex(keys, k) ==
    CHOOSE i \in 1..Len(keys) : keys[i] = k /\ \A j \in 1..(i - 1) : keys[j] # k

\* s lists each value of keys exactly once, in the order in which the values
\* first occur in keys
OnePerBucket(s, keys) ==
    /\ Len(s) = Cardinality(Range(keys))
    /\ Range(s) = Range(keys)
    /\ \A i, j \in 1..Len(s) :
          i < j => FirstIndex(keys, s[i]) < FirstIndex(keys, s[j])

Buckets(keys) ==
    CHOOSE s \in [1..Cardinality(Range(keys)) -> Range(keys)] : OnePerBucket(s, keys)

\* C14: month and day bucketing removes duplicates and keeps the order of
\* first occurrence: create_monthly_aod_list returns exactly one entry (the
\* path of the month's file, or None in warning mode) per distinct year-month
\* of the requested dates; build_urls returns exactly one URL per distinct
\* calendar day when daily=True and per distinct month when daily=False.
C14_OneEntryPerBucket ==
    /\ (Done("aod", "create_monthly_aod_list") /\ result.kind = "return")
       => LET months == Buckets(Map(strftime_Ym, Requested))
          IN /\ Len(result.file_list) = Len(months)
             /\ \A i \in 1..Len(months) :
                   LET path == aod_monthly_path(call.satellite,
                                   Requested[FirstIndex(Map(strftime_Ym, Requested),
                                                        months[i])])
                   IN IF path \in jpss THEN result.file_list[i] = path
                      ELSE call.warning /\ result.file_list[i] = None
    /\ (Done("nrt", "build_urls") /\ result.kind = "return")
       => IF call.daily
          THEN OnePerBucket(Map(LAMBDA u : u.stamp, result.file_list),
                            Map(strftime_Ymd, Requested))
          ELSE OnePerBucket(Map(LAMBDA u : u.stamp, result.file_list),
                            Map(strftime_Ym, Requested))

C14_Witness ==
    /\ Done("aod", "create_monthly_aod_list")
    /\ call.warning
    /\ Len(Requested) = 2
    /\ Requested[1] # Requested[2]
    /\ strftime_Ym(Requested[1]) = strftime_Ym(Requested[2])
    /\ result.kind = "return"
    /\ Len(result.file_list) = 1
    /\ result.file_list[1] # None


\* The requested dates in whose year directory the weekly file lies and whose
\* day its range contains
WeekDates(file) ==
    { i \in 1..Len(Requested) :
        /\ file.year = strftime_Y(Requested[i])
        /\ file.start <= strftime_Ymd(Requested[i])
        /\ strftime_Ymd(Requested[i]) <= file.end }

FirstWeekDate(file) == CHOOSE i \in WeekDates(file) : \A j \in WeekDates(file) : i <= j

\* C15: create_weekly_aod_list returns exactly the files of the listed year
\* directories whose date range contains at least one requested date, each
\* file once however many requested dates fall in its week, in the order in
\* which the dates first match them.
C15_WeeklyFilesOfTheDates ==
    (Done("aod", "create_weekly_aod_list") /\ result.kind = "return")
    => /\ Range(result.file_list)
            = { k \in jpss : /\ k.product = "Weekly"
                             /\ k.satellite = call.satellite
                             /\ WeekDates(k) # {} }
       /\ Len(result.file_list) = Cardinality(Range(result.file_list))
       /\ \A a, b \in 1..Len(result.file_list) :
             a < b => FirstWeekDate(result.file_list[a])
                        <= FirstWeekDate(result.file_list[b])

C15_Witness ==
    /\ Done("aod", "create_weekly_aod_list")
    /\ Len(Requested) = 2
    /\ strftime_Ymd(Requested[1]) # strftime_Ymd(Requested[2])
    /\ result.kind = "return"
    /\ Len(result.file_list) = 1
    /\ WeekDates(result.file_list[1]) = {1, 2}

----------------------------------------------------------------------------
(* Properties: nesdis_viirs_aod_aws_gridded, the resolution *)

InvalidResolution == <<"Invalid", "resolution">>

\* The values 0.05, 0.1 and 0.25 as floats and as strings, padded or not, and
\* the 5-character form of each
AodNominal(r) ==
    CASE r \in {f0_05, Str(<<"0", ".", "0", "5">>)} -> <<"0", ".", "0", "5", "0">>
      [] r \in {f0_1, Str(<<"0", ".", "1">>), Str(<<"0", ".", "1", "0">>),
                Str(<<"0", ".", "1", "0", "0">>)} -> <<"0", ".", "1", "0", "0">>
      [] r \in {f0_25, Str(<<"0", ".", "2", "5", "0">>)} -> <<"0", ".", "2", "5", "0">>
      [] OTHER -> <<>>

----------------------------------------------------------------------------
(* Properties: validation and remote requests *)

OpenFns == {"open_dataset", "open_mfdataset"}

\* The satellite or the data_resolution of the call is not one the module
\* documents
NrtInvalidArgument == ~NrtAccepted
AodInvalidArgument ==
    \/ call.satellite \notin {"SNPP", "NOAA20"}
    \/ /\ call.averaging_time \in {"daily", "weekly", "monthly"}
       /\ ljust(str(call.data_resolution), 5, "0")
            \notin PRODUCT_CONFIG_resolutions(call.averaging_time)

\* C17: open_dataset and open_mfdataset of the NRT module and of the VIIRS
\* AOD AWS module, called with an invalid satellite or an invalid
\* data_resolution, raise ValueError before any remote request (HTTP GET, S3
\* exists / ls / size) is issued.
C17_ValidationPrecedesRequests ==
    (/\ pc = "done"
     /\ call.fn \in OpenFns
     /\ \/ call.module = "nrt" /\ NrtInvalidArgument
        \/ call.module = "aod" /\ AodInvalidArgument)
    => /\ result.kind = "raise"
       /\ result.exc = "ValueError"
       /\ reqs = <<>>

C17_Witness ==
    /\ Done("aod", "open_mfdataset")
    /\ call.satellite = "SNPP"
    /\ call.averaging_time = "monthly"
    /\ call.data_resolution = f0_1
    /\ Requested # <<>>
    /\ \A i \in 1..Len(Requested) : aod_monthly_path("SNPP", Requested[i]) \in jpss
    /\ result.exc = "ValueError"
    /\ reqs = <<>>

----------------------------------------------------------------------------
(* Properties: the time labels of the datasets *)

\* C18: every slice of the dataset open_mfdataset of the NRT module returns
\* carries as its time label the date its URL was built from: the same
\* calendar day for daily data, the same month for monthly data, whatever
\* the list of dates (repeated days, several dates of a month, times of day).
C18_SliceLabelledWithItsDate ==
    (NrtDone("open_mfdataset") /\ result.kind = "return")
    => /\ Len(result.dset.time) = Len(result.dset.files)
       /\ \A i \in 1..Len(result.dset.files) :
             result.dset.files[i].stamp
                = IF call.daily THEN strftime_Ymd(result.dset.time[i])
                  ELSE strftime_Ym(result.dset.time[i])


\* The lookup of the date d is one that finds the file f
AodLookupFinds(d, f) ==
    IF call.averaging_time = "monthly" THEN f = aod_monthly_path(call.satellite, d)
    ELSE IF call.averaging_time = "weekly"
    THEN /\ f.product = "Weekly"
         /\ f.year = strftime_Y(d)
         /\ f.start <= strftime_Ymd(d)
         /\ strftime_Ymd(d) <= f.end
    ELSE f = aod_daily_path(ljust(str(call.data_resolution), 5, "0"), call.satellite, d)

\* The file list the builder of the call's averaging time returns for the
\* call of this state
AodDiscovered ==
    aod_file_list(jpss, aod_DatetimeIndex(call.dates), call.satellite,
                  call.data_resolution, call.averaging_time, ~call.error_missing)

\* C19: whenever open_mfdataset of the VIIRS AOD AWS module returns a
\* dataset, it has as many time labels as opened files and the i-th label is
\* the requested date whose lookup produced the i-th file, for daily, weekly
\* and monthly averaging; and whenever the discovered file list and the dates
\* differ in length the call raises ValueError.
C19_LabelIsTheDateOfTheFile ==
    Done("aod", "open_mfdataset")
    => /\ result.kind = "return"
          => /\ Len(result.dset.time) = Len(result.dset.files)
             /\ \A i \in 1..Len(result.dset.files) :
                   /\ \E j \in 1..Len(call.dates.v) : call.dates.v[j] = result.dset.time[i]
                   /\ AodLookupFinds(result.dset.time[i], result.dset.files[i])
       /\ (/\ aod_validate_inputs(call.satellite,
                                  ljust(str(call.data_resolution), 5, "0"),
                                  call.averaging_time) = NoResult
           /\ LET st == AodDiscovered
              IN ~st.raised /\ Len(st.file_list) # Len(call.dates.v))
          => result.kind = "raise" /\ result.exc = "ValueError"

----------------------------------------------------------------------------
(* Properties: the total size the builders return *)

Builders ==
    {"create_daily_aod_list", "create_monthly_aod_list", "create_weekly_aod_list",
     "create_daily_data_list"}

\* The sum of the remote sizes of the entries of a file list that are not
\* None, an entry that occurs twice counted twice
RECURSIVE RemoteSize(_)
RemoteSize(file_list) ==
    IF file_list = <<>> THEN 0
    ELSE (IF file_list[1] = None THEN 0 ELSE fs_size(file_list[1]))
         + RemoteSize(Tail(file_list))

\* C20: whenever a file-list builder returns, the total size it returns is
\* the sum of the remote sizes of the entries of the returned file list that
\* are not None, counted with multiplicity.
C20_TotalSizeOfTheList ==
    (pc = "done" /\ call.fn \in Builders /\ result.kind = "return")
    => result.total_size = RemoteSize(result.file_list)

\* A builder returns the same file for two requested dates, and a size
C20_Witness ==
    /\ pc = "done"
    /\ call.fn \in Builders
    /\ result.kind = "return"
    /\ Len(result.file_list) = 2
    /\ result.file_list[1] # None
    /\ result.file_list[1] = result.file_list[2]
    /\ result.total_size = 2 * fs_size(result.file_list[1])
    /\ result.total_size > 0

====
